---- MODULE Spec2Model ----
(***************************************************************************)
(* LLM application server: the application service (src/src/service.py),   *)
(* the request-scoped database session (src/src/database/session.py) and   *)
(* the two tables (src/src/database/models.py).                            *)
(*                                                                         *)
(* Every request runs in its own task with its own session.  A request     *)
(* moves at its suspension points (the awaits on the database and on the   *)
(* LLM), so one action is the code between two awaits.  The database is    *)
(* the committed content of the two tables; statements of different        *)
(* sessions see the committed state at the time they run (READ COMMITTED). *)
(***************************************************************************)
EXTENDS Integers, Sequences, FiniteSets, TLC

\* ---------------------------------------------------------------- bounds
MaxApps == 2        \* applications ever created (ids are never reused)
MaxLogs == 2        \* completion logs ever stored
MaxClock == 1       \* values of the database clock: 0..MaxClock
MaxPage == 2        \* page numbers requested: 1..MaxPage
MaxSize == 2        \* page sizes requested: 1..MaxSize
MaxRequests == 4    \* requests ever started

\* stop_after_attempt(3), service.py line 68
MaxAttempts == 3

\* Two requests are in flight at the same time.
Slots == {"r1", "r2"}

\* The tasks of the server: those of Slots, and one more that only the
\* specification with three requests in flight uses.
Tasks == Slots \cup {"r3"}

\* ------------------------------------------------------------ JSON values
\* JSON schemas as callers supply them (the shapes of the test suite):
\* InSchema requires "input_key" to hold a string, OutSchema requires
\* "output_key" to hold a string, BadSchema has "type": "invalid_type" and is
\* not a Draft-7 schema.
InSchema == "in_schema"
OutSchema == "out_schema"
BadSchema == "bad_schema"
InputSchemas == {InSchema, BadSchema}
OutputSchemas == {OutSchema, BadSchema}

\* JSON instances: "input_key" holding a string or a number, "output_key"
\* holding a string or a number.
InStr == "in_str"
InNum == "in_num"
OutStr == "out_str"
OutNum == "out_num"
Inputs == {InStr, InNum}

\* Texts the model can return: the JSON text of an instance, or text that
\* is not JSON.
Texts == {"{out_str}", "{out_num}", "junk"}

Prompts == {"p"}

\* Draft7Validator.check_schema: TRUE unless it raises.
check_schema(schema) == schema # BadSchema

\* A validate that accepts every instance.
validate_anything(instance, schema) == TRUE

\* jsonschema.validate(instance, schema): TRUE unless it raises
\* ValidationError.
validate(instance, schema) ==
    CASE schema = InSchema -> instance = InStr
      [] schema = OutSchema -> instance = OutStr
      [] OTHER -> FALSE

\* json.loads on the content of the first choice: the parsed instance, or
\* "JSONDecodeError" when the text is not JSON.
json_loads(text) ==
    CASE text = "{out_str}" -> OutStr
      [] text = "{out_num}" -> OutNum
      [] OTHER -> "JSONDecodeError"

\* ------------------------------------------------------------------ state
VARIABLES
    apps,       \* table applications: id -> row (committed)
    logs,       \* table completion_logs, in insertion order (committed)
    nextAppId,  \* ids handed out to applications so far, plus one (uuid4)
    nextLogId,  \* ids handed out to completion logs so far, plus one (uuid4)
    now,        \* the database clock, read by func.now()
    started,    \* requests started so far
    req         \* slot -> the request running in it

vars == <<apps, logs, nextAppId, nextLogId, now, started, req>>

NoApplication == [prompt_config |-> "", input_schema |-> "", output_schema |-> "", created_at |-> 0]

\* A slot with no request in it.
IdleReq ==
    [op |-> "idle", pc |-> "idle", app_id |-> 0, application |-> NoApplication,
     input_data |-> "none", attempts |-> 0, text |-> "none", ret |-> "none",
     exc |-> "none", tx |-> 0, page |-> 0, size |-> 0, items |-> <<>>,
     total |-> 0, total_pages |-> 0, log_id |-> 0,
     last_attempt |-> "none", detail |-> <<>>, status_code |-> 0,
     response_format |-> [schema |-> "", additionalProperties |-> TRUE],
     session |-> "none", pending |-> "none"]

\* session.py line 17: the request has a session of its own, with nothing
\* pending in it.
async_session == [IdleReq EXCEPT !.session = "open"]

Init ==
    /\ apps = <<>>
    /\ logs = <<>>
    /\ nextAppId = 1
    /\ nextLogId = 1
    /\ now = 0
    /\ started = 0
    /\ req = [r \in Tasks |-> IdleReq]

\* ---------------------------------------------------------------- helpers
Min(a, b) == IF a < b THEN a ELSE b
Max(a, b) == IF a > b THEN a ELSE b

\* Positions in the table of the logs of one application.
LogsOf(id) == {i \in 1..Len(logs) : logs[i].application_id = id}

\* Invocations that may still store a log.
InFlightInvokes == {r \in Tasks : req[r].op = "invoke" /\ req[r].pc # "done"}

\* What func.now() can return: the clock has not moved since it was last
\* read, or it has moved on.
ClockReads == {t \in {now, now + 1} : t <= MaxClock}

\* ----------------------------------------------------- create_application
\* The row create_application adds: the id is the uuid4 default, created_at
\* the func.now() default.
NewApplication(prompt_config, input_schema, output_schema, t) ==
    [prompt_config |-> prompt_config, input_schema |-> input_schema,
     output_schema |-> output_schema, created_at |-> t]

\* The check of lines 42-46 with the output schema left out.
SchemasWellFormed_input_only(input_schema, output_schema) ==
    check_schema(input_schema)

\* Lines 42-46: both schemas are checked before anything is added.
SchemasWellFormed(input_schema, output_schema) ==
    check_schema(input_schema) /\ check_schema(output_schema)

\* Lines 36-54: check both schemas, add, commit, refresh.  The only await
\* that touches the store is the commit, so the handler is one step.
create_application(r) ==
    /\ req[r].pc = "idle"
    /\ started < MaxRequests
    /\ started' = started + 1
    /\ nextAppId <= MaxApps
    /\ \E prompt_config \in Prompts, input_schema \in InputSchemas,
          output_schema \in OutputSchemas, t \in ClockReads :
        LET supplied == NewApplication(prompt_config, input_schema, output_schema, 0)
            row == NewApplication(prompt_config, input_schema, output_schema, t)
        IN  IF SchemasWellFormed(input_schema, output_schema)
            THEN /\ apps' = [i \in DOMAIN apps \cup {nextAppId} |->
                                IF i = nextAppId THEN row ELSE apps[i]]
                 /\ nextAppId' = nextAppId + 1
                 /\ now' = t
                 /\ req' = [req EXCEPT ![r] =
                        [async_session EXCEPT !.op = "create", !.pc = "done",
                            !.app_id = nextAppId, !.application = row]]
            ELSE /\ req' = [req EXCEPT ![r] =
                        [async_session EXCEPT !.op = "create", !.pc = "done",
                            !.exc = "SchemaValidationException",
                            !.application = supplied]]
                 /\ UNCHANGED <<apps, nextAppId, now>>
    /\ UNCHANGED <<logs, nextLogId>>

\* -------------------------------------------------------- get_application
\* Lines 56-60: TRUE when session.get finds the row, FALSE when it raises
\* ApplicationNotFoundException.
get_application(application_id) == application_id \in DOMAIN apps

\* Ids a caller may name: those handed out, and those not handed out yet.
AppIds == 1..MaxApps

\* Line 57 returning the row without its output schema.
session_get_without_output_schema(application_id) ==
    [apps[application_id] EXCEPT !.output_schema = ""]

\* Line 57, session.get for a stored id: the row as it is stored.
session_get(application_id) == apps[application_id]

\* Lines 56-60 called on their own: the application, or
\* ApplicationNotFoundException.  Nothing is added to the session.
get(r) ==
    /\ req[r].pc = "idle"
    /\ started < MaxRequests
    /\ started' = started + 1
    /\ \E application_id \in AppIds :
        IF get_application(application_id)
        THEN req' = [req EXCEPT ![r] =
                [async_session EXCEPT !.op = "get", !.pc = "done", !.app_id = application_id,
                    !.application = session_get(application_id)]]
        ELSE req' = [req EXCEPT ![r] =
                [async_session EXCEPT !.op = "get", !.pc = "done", !.app_id = application_id,
                    !.exc = "ApplicationNotFoundException"]]
    /\ UNCHANGED <<apps, logs, nextAppId, nextLogId, now>>

\* ----------------------------------------------------- delete_application
\* delete_application that returns quietly when the application is absent.
delete_application_quiet(r) ==
    /\ req[r].pc = "idle"
    /\ started < MaxRequests
    /\ started' = started + 1
    /\ \E application_id \in 1..MaxApps :
        IF application_id \in DOMAIN apps
        THEN req' = [req EXCEPT ![r] =
                [async_session EXCEPT !.op = "delete", !.pc = "commit",
                    !.app_id = application_id, !.pending = "delete"]]
        ELSE req' = [req EXCEPT ![r] =
                [async_session EXCEPT !.op = "delete", !.pc = "done",
                    !.app_id = application_id]]
    /\ UNCHANGED <<apps, logs, nextAppId, nextLogId, now>>

\* Lines 62-66: fetch, then mark the row deleted in the session.  Nothing is
\* written before the session commits (get_db_session).
delete_application(r) ==
    /\ req[r].pc = "idle"
    /\ started < MaxRequests
    /\ started' = started + 1
    /\ \E application_id \in AppIds :
        IF get_application(application_id)
        THEN req' = [req EXCEPT ![r] =
                [async_session EXCEPT !.op = "delete", !.pc = "commit",
                    !.app_id = application_id, !.pending = "delete"]]
        ELSE req' = [req EXCEPT ![r] =
                [async_session EXCEPT !.op = "delete", !.pc = "done",
                    !.app_id = application_id,
                    !.exc = "ApplicationNotFoundException"]]
    /\ UNCHANGED <<apps, logs, nextAppId, nextLogId, now>>

\* ---------------------------------------------------- generate_completion
\* src/src/main.py lines 60-106, generate_response: the status code the
\* completions endpoint answers with.  404 (line 68), 400 for an input
\* that fails its schema (line 73), 500 for a failed call or a text that
\* does not parse (line 93), 500 for an output that fails its schema
\* (line 98), 200 with the output (line 106); an error no handler catches
\* is answered with 500.
generate_response(exc) ==
    CASE exc = "none" -> 200
      [] exc = "ApplicationNotFoundException" -> 404
      [] exc = "InputValidationException" -> 400
      [] exc = "OutputValidationException" -> 500
      [] OTHER -> 500

\* Lines 106-110 without the validation of line 108.
generate_completion_output_unvalidated(application, text) ==
    IF json_loads(text) = "JSONDecodeError"
    THEN [exc |-> "JSONDecodeError", ret |-> "none"]
    ELSE [exc |-> "none", ret |-> json_loads(text)]

\* Lines 106-110 on the text of a successful call: the exception raised (or
\* "none") and the value returned.  json.loads raises JSONDecodeError, which
\* the except clause for ValidationError does not catch.
generate_completion_output(application, text) ==
    IF json_loads(text) = "JSONDecodeError"
    THEN [exc |-> "JSONDecodeError", ret |-> "none"]
    ELSE IF ~validate(json_loads(text), application.output_schema)
    THEN [exc |-> "OutputValidationException", ret |-> "none"]
    ELSE [exc |-> "none", ret |-> json_loads(text)]

\* Lines 94-97 with the ValidationError swallowed.
input_rejected_never(input_data, application) == FALSE

\* Lines 94-97: TRUE when the input is refused with
\* InputValidationException.
input_rejected(input_data, application) ==
    ~validate(input_data, application.input_schema)

\* Lines 92-97: fetch the application and validate the input (no await in
\* between).  The session's transaction begins with the fetch, and its
\* start is what func.now() returns until it ends.
generate_completion(r) ==
    /\ req[r].pc = "idle"
    /\ started < MaxRequests
    /\ started' = started + 1
    /\ Len(logs) + Cardinality(InFlightInvokes) < MaxLogs
    /\ \E application_id \in AppIds, input_data \in Inputs, t \in ClockReads :
        LET begun == [async_session EXCEPT !.op = "invoke", !.app_id = application_id,
                            !.input_data = input_data]
        IN  IF ~get_application(application_id)
            THEN /\ req' = [req EXCEPT ![r] =
                        [begun EXCEPT !.pc = "done", !.exc = "ApplicationNotFoundException",
                            !.status_code = generate_response("ApplicationNotFoundException")]]
                 /\ UNCHANGED now
            ELSE IF input_rejected(input_data, apps[application_id])
            THEN /\ req' = [req EXCEPT ![r] =
                        [begun EXCEPT !.pc = "done", !.exc = "InputValidationException",
                            !.status_code = generate_response("InputValidationException"),
                            !.application = apps[application_id]]]
                 /\ UNCHANGED now
            ELSE /\ req' = [req EXCEPT ![r] =
                        [begun EXCEPT !.pc = "llm", !.application = apps[application_id],
                            !.tx = t]]
                 /\ now' = t
    /\ UNCHANGED <<apps, logs, nextAppId, nextLogId>>

\* What one attempt of the LLM call can do: raise an error (named here by
\* its message, str(e)), or return a text.
Errors == {"e1", "e2"}
AttemptResults == Errors \cup Texts

\* The class of the errors the client raises.
ErrorType(e) == "APIError"

\* str() of the RetryError that the retry of line 68 raises when it stops
\* (reraise is not set): "RetryError[<Future ... raised APIError>]".  It
\* names the class of the last attempt's error, not its message.
RetryError_str(last_attempt) == <<"RetryError[", ErrorType(last_attempt), "]">>

\* Lines 103-104: the message of the LLMCallException.
LLMCallException_message(e_str) == <<"LLM call failed: ">> \o e_str

\* Line 68 with a retry that stops one attempt later.
retry_stops_after_four(attempts) == attempts >= MaxAttempts + 1

\* @retry(stop=stop_after_attempt(3)), line 68: after a failed attempt
\* another one follows unless this was the last one.
retry_stops(attempts) == attempts >= MaxAttempts

\* Lines 75-82: the schema the model is asked to follow, a new document
\* made of the output schema and "additionalProperties": false.
response_format(output_schema) ==
    [schema |-> output_schema, additionalProperties |-> FALSE]

\* The request after one more attempt of _call_llm (lines 68-85, 99-116).
\* A failed attempt is retried; the last failed attempt raises out of the
\* retry and becomes LLMCallException.  A successful attempt continues
\* without an await: parse, validate, add the log to the session, return.
AfterAttempt(q, result) ==
    LET attempts == q.attempts + 1
        out == generate_completion_output(q.application, result)
        sent == [q EXCEPT !.response_format = response_format(q.application.output_schema)]
    IN  IF result \in Errors
        THEN IF retry_stops(attempts)
             THEN [sent EXCEPT !.attempts = attempts, !.pc = "done",
                            !.last_attempt = result,
                            !.exc = "LLMCallException",
                            !.status_code = generate_response("LLMCallException"),
                            !.detail = LLMCallException_message(RetryError_str(result))]
             ELSE [sent EXCEPT !.attempts = attempts, !.last_attempt = result]
        ELSE IF out.exc # "none"
             THEN [sent EXCEPT !.attempts = attempts, !.pc = "done",
                            !.last_attempt = "none",
                            !.status_code = generate_response(out.exc),
                            !.text = result, !.exc = out.exc]
             ELSE [sent EXCEPT !.attempts = attempts, !.pc = "commit",
                            !.last_attempt = "none", !.pending = "log",
                            !.text = result, !.ret = out.ret]

\* The row generate_completion adds to its session (lines 112-115): the id
\* is the uuid4 default, created_at is func.now(), the start of the
\* transaction.
CompletionLog(q, output_data) ==
    [id |-> nextLogId, application_id |-> q.app_id,
     input_data |-> q.input_data, output_data |-> output_data,
     created_at |-> q.tx]

\* call_llm with the log row written as soon as the text is parsed, before
\* the output is validated.
call_llm_log_before_validation(r) ==
    /\ req[r].pc = "llm"
    /\ \E result \in AttemptResults :
        /\ req' = [req EXCEPT ![r] = AfterAttempt(req[r], result)]
        /\ IF result \notin Errors /\ json_loads(result) # "JSONDecodeError"
              /\ AfterAttempt(req[r], result).exc # "none"
           THEN /\ logs' = Append(logs, CompletionLog(req[r], json_loads(result)))
                /\ nextLogId' = nextLogId + 1
           ELSE UNCHANGED <<logs, nextLogId>>
    /\ UNCHANGED <<apps, nextAppId, now, started>>

\* call_llm with "additionalProperties" written into the output schema of
\* the application itself.
call_llm_tightening_stored_schema(r) ==
    /\ req[r].pc = "llm"
    /\ \E result \in AttemptResults :
        req' = [req EXCEPT ![r] = AfterAttempt(req[r], result)]
    /\ apps' = [i \in DOMAIN apps |->
                    IF i = req[r].app_id
                    THEN [apps[i] EXCEPT !.output_schema = "out_schema_no_additional"]
                    ELSE apps[i]]
    /\ UNCHANGED <<logs, nextAppId, nextLogId, now, started>>

\* One attempt of _call_llm and what follows it up to the next await.  The
\* log row waits in the session: nothing is written before the commit.
call_llm(r) ==
    /\ req[r].pc = "llm"
    /\ \E result \in AttemptResults :
        req' = [req EXCEPT ![r] = AfterAttempt(req[r], result)]
    /\ UNCHANGED <<apps, logs, nextAppId, nextLogId, now, started>>

\* A cancellation whose CancelledError is caught inside the call: the
\* invocation goes on.
cancel_caught(r) ==
    /\ req[r].op = "invoke"
    /\ req[r].pc = "llm"
    /\ req' = [req EXCEPT ![r].exc = "CancelledError"]
    /\ UNCHANGED <<apps, logs, nextAppId, nextLogId, now, started>>

\* The task of the request is cancelled while generate_completion is
\* suspended in _call_llm: in the call of line 70 or in the wait of line 68
\* between two attempts.  CancelledError is not an Exception: the retry
\* does not retry it and the except clause of line 103 does not catch it.
\* It leaves the handler, and get_db_session (session.py 17-23) closes the
\* session without a commit.
cancel(r) ==
    /\ req[r].op = "invoke"
    /\ req[r].pc = "llm"
    /\ req' = [req EXCEPT ![r].pc = "done", ![r].exc = "CancelledError"]
    /\ UNCHANGED <<apps, logs, nextAppId, nextLogId, now, started>>

\* ---------------------------------------------------------- get_db_session
\* completion_logs.application_id without the foreign key.
foreign_key_unchecked(application_id) == TRUE

\* ForeignKey(applications.id) on completion_logs.application_id,
\* models.py lines 39-44: an insert needs the application row.
foreign_key_holds(application_id) == application_id \in DOMAIN apps

\* The relationship of models.py lines 25-27 has no delete cascade and the
\* foreign key column is not nullable: deleting an application that still
\* has logs is refused by the database.
delete_allowed(application_id) == LogsOf(application_id) = {}

\* get_db_session whose refused delete has already removed the logs of the
\* application.
get_db_session_dropping_logs(r) ==
    /\ req[r].pc = "commit"
    /\ \/ /\ req[r].op = "invoke"
          /\ IF foreign_key_holds(req[r].app_id)
             THEN /\ logs' = Append(logs, CompletionLog(req[r], req[r].ret))
                  /\ nextLogId' = nextLogId + 1
                  /\ req' = [req EXCEPT ![r].pending = "none", ![r].pc = "done", ![r].log_id = nextLogId,
                                        ![r].status_code = generate_response("none")]
             ELSE /\ req' = [req EXCEPT ![r].pending = "none", ![r].pc = "done", ![r].exc = "IntegrityError",
                                        ![r].status_code = generate_response("IntegrityError")]
                  /\ UNCHANGED <<logs, nextLogId>>
          /\ UNCHANGED apps
       \/ /\ req[r].op = "delete"
          /\ IF ~get_application(req[r].app_id)
             THEN \* the row is gone already: the DELETE matches nothing
                  /\ req' = [req EXCEPT ![r].pending = "none", ![r].pc = "done"]
                  /\ UNCHANGED apps
             ELSE IF delete_allowed(req[r].app_id)
             THEN /\ apps' = [i \in DOMAIN apps \ {req[r].app_id} |-> apps[i]]
                  /\ req' = [req EXCEPT ![r].pending = "none", ![r].pc = "done"]
             ELSE /\ req' = [req EXCEPT ![r].pending = "none", ![r].pc = "done", ![r].exc = "IntegrityError"]
                  /\ UNCHANGED apps
          /\ IF get_application(req[r].app_id) /\ ~delete_allowed(req[r].app_id)
             THEN logs' = SelectSeq(logs, LAMBDA row : row.application_id # req[r].app_id)
             ELSE UNCHANGED logs
          /\ UNCHANGED nextLogId
    /\ UNCHANGED <<nextAppId, now, started>>

\* session.py lines 18-23, after the handler has returned: commit what the
\* session holds; on an SQLAlchemyError roll back and raise it.
get_db_session(r) ==
    /\ req[r].pc = "commit"
    /\ \/ /\ req[r].op = "invoke"
          /\ IF foreign_key_holds(req[r].app_id)
             THEN /\ logs' = Append(logs, CompletionLog(req[r], req[r].ret))
                  /\ nextLogId' = nextLogId + 1
                  /\ req' = [req EXCEPT ![r].pending = "none", ![r].pc = "done", ![r].log_id = nextLogId,
                                        ![r].status_code = generate_response("none")]
             ELSE /\ req' = [req EXCEPT ![r].pending = "none", ![r].pc = "done", ![r].exc = "IntegrityError",
                                        ![r].status_code = generate_response("IntegrityError")]
                  /\ UNCHANGED <<logs, nextLogId>>
          /\ UNCHANGED apps
       \/ /\ req[r].op = "delete"
          /\ IF ~get_application(req[r].app_id)
             THEN \* the row is gone already: the DELETE matches nothing
                  /\ req' = [req EXCEPT ![r].pending = "none", ![r].pc = "done"]
                  /\ UNCHANGED apps
             ELSE IF delete_allowed(req[r].app_id)
             THEN /\ apps' = [i \in DOMAIN apps \ {req[r].app_id} |-> apps[i]]
                  /\ req' = [req EXCEPT ![r].pending = "none", ![r].pc = "done"]
             ELSE /\ req' = [req EXCEPT ![r].pending = "none", ![r].pc = "done", ![r].exc = "IntegrityError"]
                  /\ UNCHANGED apps
          /\ UNCHANGED <<logs, nextLogId>>
    /\ UNCHANGED <<nextAppId, now, started>>

\* -------------------------------------------------------- get_request_logs
\* The orders the database may return the logs of one application in under
\* ORDER BY created_at DESC (line 128): created_at never increases along the
\* result; the order of rows with equal created_at is not specified.
Orderings(S) ==
    {s \in [1..Cardinality(S) -> S] :
        /\ \A i, j \in 1..Cardinality(S) : i # j => s[i] # s[j]
        /\ \A i, j \in 1..Cardinality(S) :
              i < j => logs[s[i]].created_at >= logs[s[j]].created_at}

\* LIMIT size OFFSET offset (lines 129-130) of an ordered result.
LimitOffset(s, size, offset) ==
    IF offset >= Len(s) THEN <<>> ELSE SubSeq(s, offset + 1, Min(offset + size, Len(s)))

\* Line 123 with the page counted from zero.
offset_of_page_from_zero(page, size) == page * size

\* Line 123.
offset_of(page, size) == (page - 1) * size

\* Lines 118-121: fetch the application.
get_request_logs(r) ==
    /\ req[r].pc = "idle"
    /\ started < MaxRequests
    /\ started' = started + 1
    /\ \E application_id \in AppIds, page \in 1..MaxPage, size \in 1..MaxSize :
        IF get_application(application_id)
        THEN req' = [req EXCEPT ![r] =
                [async_session EXCEPT !.op = "list", !.pc = "page", !.app_id = application_id,
                    !.page = page, !.size = size]]
        ELSE req' = [req EXCEPT ![r] =
                [async_session EXCEPT !.op = "list", !.pc = "done", !.app_id = application_id,
                    !.page = page, !.size = size, !.exc = "ApplicationNotFoundException"]]
    /\ UNCHANGED <<apps, logs, nextAppId, nextLogId, now>>

\* Lines 125-133: the page query.  The items are the ids of the rows.
get_request_logs_page(r) ==
    /\ req[r].pc = "page"
    /\ \E s \in Orderings(LogsOf(req[r].app_id)) :
        req' = [req EXCEPT ![r].pc = "count",
                    ![r].items = LimitOffset([i \in 1..Len(s) |-> logs[s[i]].id],
                                             req[r].size, offset_of(req[r].page, req[r].size))]
    /\ UNCHANGED <<apps, logs, nextAppId, nextLogId, now, started>>

\* total_pages of the response: ceil(total / size), derived by the caller
\* of get_request_logs.
total_pages(total, size) == (total + size - 1) \div size

\* Lines 135-143: the count query, and the response.
get_request_logs_count(r) ==
    /\ req[r].pc = "count"
    /\ req' = [req EXCEPT ![r].pc = "done",
                    ![r].total = Cardinality(LogsOf(req[r].app_id)),
                    ![r].total_pages = total_pages(Cardinality(LogsOf(req[r].app_id)),
                                                   req[r].size)]
    /\ UNCHANGED <<apps, logs, nextAppId, nextLogId, now, started>>

\* Finish with the session left open.
Finish_keeping_session(r) ==
    /\ req[r].pc = "done"
    /\ req' = [req EXCEPT ![r] = async_session]
    /\ UNCHANGED <<apps, logs, nextAppId, nextLogId, now, started>>

\* The request is over: its session is closed and the slot is free again.
Finish(r) ==
    /\ req[r].pc = "done"
    /\ req' = [req EXCEPT ![r] = IdleReq]
    /\ UNCHANGED <<apps, logs, nextAppId, nextLogId, now, started>>

Next ==
    \/ \E r \in Slots : create_application(r)
    \/ \E r \in Slots : get(r)
    \/ \E r \in Slots : delete_application(r)
    \/ \E r \in Slots : generate_completion(r)
    \/ \E r \in Slots : call_llm(r)
    \/ \E r \in Slots : cancel(r)
    \/ \E r \in Slots : get_db_session(r)
    \/ \E r \in Slots : get_request_logs(r)
    \/ \E r \in Slots : get_request_logs_page(r)
    \/ \E r \in Slots : get_request_logs_count(r)
    \/ \E r \in Slots : Finish(r)

Spec == Init /\ [][Next]_vars

\* Every attempt of the LLM call, every statement and every commit that a
\* request waits for eventually returns or fails, and a request that has
\* ended gives its session back.
Fairness ==
    \A r \in Slots :
        /\ WF_vars(call_llm(r))
        /\ WF_vars(get_db_session(r))
        /\ WF_vars(get_request_logs_page(r))
        /\ WF_vars(get_request_logs_count(r))
        /\ WF_vars(Finish(r))

FairSpec == Spec /\ Fairness

\* Three requests in flight at the same time, each a create, an invoke or
\* a delete.
NextThree ==
    \/ \E r \in Tasks : create_application(r)
    \/ \E r \in Tasks : delete_application(r)
    \/ \E r \in Tasks : generate_completion(r)
    \/ \E r \in Tasks : call_llm(r)
    \/ \E r \in Tasks : get_db_session(r)
    \/ \E r \in Tasks : Finish(r)

SpecThree == Init /\ [][NextThree]_vars

\* ------------------------------------------------------------- properties
\* The words of the properties, stated apart from the operators of the
\* model: what a schema accepts, which schemas are Draft-7 schemas, which
\* texts are JSON and what they denote.
Conforms(instance, schema) ==
    \/ schema = InSchema /\ instance = InStr
    \/ schema = OutSchema /\ instance = OutStr

IsWellFormed(schema) == schema \in {InSchema, OutSchema}

IsJson(text) == text \in {"{out_str}", "{out_num}"}

JsonValueOf(text) == IF text = "{out_str}" THEN OutStr ELSE OutNum

\* The invocation in slot r has fetched its application.
Found(r) == req[r].application # NoApplication

\* The stored rows that are the log of the invocation in slot r.
LoggedBy(r) ==
    {i \in 1..Len(logs) :
        /\ logs[i].id = req[r].log_id
        /\ logs[i].application_id = req[r].app_id
        /\ logs[i].input_data = req[r].input_data
        /\ logs[i].output_data = req[r].ret}

\* The invocation in slot r is over (and was not cancelled), had an
\* application and a valid input.
ValidInvocationDone(r) ==
    /\ req[r].op = "invoke"
    /\ req[r].pc = "done"
    /\ req[r].exc # "CancelledError"
    /\ Found(r)
    /\ Conforms(req[r].input_data, req[r].application.input_schema)

\* Its last attempt returned a text that is JSON and satisfies the output
\* schema.
GotValidOutput(r) ==
    /\ IsJson(req[r].text)
    /\ Conforms(JsonValueOf(req[r].text), req[r].application.output_schema)

\* C1: an invocation that ends with LLMCallException or with
\* OutputValidationException stores no completion log: no step of such an
\* invocation changes the table of logs, and it is given no log row.
C1_NoLogForFailedInvocation ==
    [][\A r \in Slots :
          (req'[r] # req[r] /\ req'[r].op = "invoke") =>
              /\ req'[r].log_id = 0 => logs' = logs
              /\ req'[r].exc \in {"LLMCallException", "OutputValidationException"}
                    => (req'[r].log_id = 0 /\ logs' = logs)]_vars

\* One invocation has ended with LLMCallException and another one with
\* OutputValidationException.
C1_Witness ==
    \E r1, r2 \in Slots :
        /\ req[r1].op = "invoke" /\ req[r1].pc = "done"
        /\ req[r1].exc = "LLMCallException" /\ req[r1].attempts = MaxAttempts
        /\ req[r2].op = "invoke" /\ req[r2].pc = "done"
        /\ req[r2].exc = "OutputValidationException"

\* C2: an invocation of an existing application with a valid input whose
\* call returns a text that parses to a value satisfying the output schema
\* returns that value and has stored exactly one log row holding the
\* application id, the input and the returned value; and no invocation has
\* returned a value without its log row being stored.
C2_ValidInvocationIsLogged ==
    \A r \in Slots :
        /\ (ValidInvocationDone(r) /\ GotValidOutput(r)) =>
              /\ req[r].ret = JsonValueOf(req[r].text)
              /\ Cardinality(LoggedBy(r)) = 1
        /\ (req[r].op = "invoke" /\ req[r].pc = "done" /\ req[r].ret # "none") =>
              Cardinality(LoggedBy(r)) = 1

\* C3: an invocation of an existing application with an input that does not
\* satisfy the input schema ends with InputValidationException at once,
\* without an attempt of the LLM call and without a change of the logs.
C3_InvalidInputRejected ==
    [][\A r \in Slots :
          (/\ req'[r] # req[r]
           /\ req'[r].op = "invoke"
           /\ req'[r].app_id \in DOMAIN apps
           /\ ~Conforms(req'[r].input_data, apps[req'[r].app_id].input_schema)) =>
              /\ req'[r].exc = "InputValidationException"
              /\ req'[r].pc = "done"
              /\ req'[r].attempts = 0
              /\ req'[r].log_id = 0
              /\ logs' = logs]_vars

\* An invocation with an invalid input has been refused.
C3_Witness ==
    \E r \in Slots :
        /\ req[r].op = "invoke" /\ req[r].pc = "done" /\ Found(r)
        /\ ~Conforms(req[r].input_data, req[r].application.input_schema)
        /\ req[r].exc = "InputValidationException"

\* C4: an invocation with a valid input whose attempts fail fewer than three
\* times and then succeed with a conforming output returns that output and
\* has stored exactly one log row; one whose three attempts all fail ends
\* with LLMCallException and has stored none.
C4_RetryOutcome ==
    \A r \in Slots :
        ValidInvocationDone(r) =>
            /\ GotValidOutput(r) =>
                  /\ req[r].attempts \in 1..MaxAttempts
                  /\ req[r].ret = JsonValueOf(req[r].text)
                  /\ Cardinality(LoggedBy(r)) = 1
            /\ req[r].text = "none" =>
                  /\ req[r].attempts = MaxAttempts
                  /\ req[r].exc = "LLMCallException"
                  /\ req[r].log_id = 0

\* C5: a delete of an application that was there when it was fetched
\* succeeds, and afterwards neither the application nor any of its logs is
\* stored.
C5_DeleteRemovesApplicationAndLogs ==
    \A r \in Slots :
        (/\ req[r].op = "delete"
         /\ req[r].pc = "done"
         /\ req[r].exc # "ApplicationNotFoundException") =>
            /\ req[r].exc = "none"
            /\ req[r].app_id \notin DOMAIN apps
            /\ LogsOf(req[r].app_id) = {}

\* C6: an invoke, a listing or a delete that names an id with no stored
\* application ends with ApplicationNotFoundException at once, without an
\* attempt of the LLM call and without a change of the stores; and an id
\* whose application is gone is never stored again, so this is what every
\* later request for a deleted application meets.
C6_AbsentApplicationNotFound ==
    [][/\ \A r \in Slots :
            (/\ req[r].pc = "idle"
             /\ req'[r].op \in {"invoke", "list", "delete"}
             /\ req'[r].app_id \notin DOMAIN apps) =>
                /\ req'[r].exc = "ApplicationNotFoundException"
                /\ req'[r].pc = "done"
                /\ req'[r].attempts = 0
                /\ apps' = apps
                /\ logs' = logs
       /\ \A id \in 1..(nextAppId - 1) :
            id \notin DOMAIN apps => id \notin DOMAIN apps']_vars

\* An invoke or a listing has named an application that had been deleted.
C6_Witness ==
    \E r \in Slots :
        /\ req[r].op \in {"invoke", "list"}
        /\ req[r].pc = "done"
        /\ req[r].exc = "ApplicationNotFoundException"
        /\ req[r].app_id < nextAppId
        /\ req[r].app_id \notin DOMAIN apps

\* C7: every stored completion log references a stored application.
C7_LogsReferenceStoredApplication ==
    \A i \in 1..Len(logs) : logs[i].application_id \in DOMAIN apps

\* The application of an invocation was deleted while the invocation was
\* in its LLM call, and the commit of its log was refused.
C7_Witness ==
    \E r \in Slots :
        /\ req[r].op = "invoke"
        /\ req[r].pc = "done"
        /\ req[r].exc = "IntegrityError"
        /\ req[r].ret # "none"
        /\ req[r].app_id \notin DOMAIN apps

\* The least k with k * size >= n.
CeilDiv(n, size) == CHOOSE k \in 0..n : k * size >= n /\ (k = 0 \/ (k - 1) * size < n)

\* C8: with N logs stored for the application, the page query of a listing
\* returns min(size, max(0, N - (page-1)*size)) rows, all different and all
\* of that application, also beyond the last page; the count query returns
\* total = N, and total_pages is ceil(N / size).
C8_Pagination ==
    [][\A r \in Slots :
          LET N == Cardinality(LogsOf(req[r].app_id))
              items == req'[r].items
          IN  /\ (req[r].pc = "page" /\ req'[r].pc = "count") =>
                    /\ Len(items) = Min(req[r].size,
                                        Max(0, N - (req[r].page - 1) * req[r].size))
                    /\ \A k \in 1..Len(items) :
                          \E i \in LogsOf(req[r].app_id) : logs[i].id = items[k]
                    /\ \A k, l \in 1..Len(items) : k # l => items[k] # items[l]
              /\ (req[r].pc = "count" /\ req'[r].pc = "done") =>
                    /\ req'[r].exc = "none"
                    /\ req'[r].total = N
                    /\ req'[r].total_pages = CeilDiv(N, req[r].size)
                    /\ req'[r].items = req[r].items]_vars

\* Of an application with one log, one listing has returned the first page
\* with its row, and another one the page after the last: no rows, the
\* total, and no error.
C8_Witness ==
    \E r1, r2 \in Slots :
        /\ req[r1].op = "list" /\ req[r1].pc = "done"
        /\ req[r1].page = 1 /\ req[r1].total = 1 /\ Len(req[r1].items) = 1
        /\ req[r2].op = "list" /\ req[r2].pc = "done" /\ req[r2].exc = "none"
        /\ req[r2].page = 2 /\ req[r2].total = 1 /\ req[r2].items = <<>>
        /\ req[r2].total_pages = 1

\* C9: the page query of a listing is deterministic: for the stored logs of
\* the application, the page and the size there is one item sequence it can
\* return (created_at descending, ties in one fixed order).
C9_PageQueryDeterministic ==
    \A r \in Slots :
        req[r].pc = "page" =>
            Cardinality({LimitOffset([i \in 1..Len(s) |-> logs[s[i]].id], req[r].size,
                                     (req[r].page - 1) * req[r].size) :
                            s \in Orderings(LogsOf(req[r].app_id))}) = 1

\* C10: a create with a malformed input or output schema ends with
\* SchemaValidationException and stores nothing; a create with two
\* well-formed schemas stores exactly one new application, as supplied,
\* under an id never handed out before, and returns that id.
C10_CreateChecksBothSchemas ==
    [][\A r \in Slots :
          (req[r].pc = "idle" /\ req'[r].op = "create") =>
              LET a == req'[r].application
                  id == req'[r].app_id
              IN  IF IsWellFormed(a.input_schema) /\ IsWellFormed(a.output_schema)
                  THEN /\ req'[r].exc = "none"
                       /\ id \notin DOMAIN apps
                       /\ id \notin 1..(nextAppId - 1)
                       /\ id < nextAppId'
                       /\ DOMAIN apps' = DOMAIN apps \cup {id}
                       /\ \A i \in DOMAIN apps : apps'[i] = apps[i]
                       /\ apps'[id] = a
                  ELSE /\ req'[r].exc = "SchemaValidationException"
                       /\ apps' = apps]_vars

\* One create was refused for its output schema alone, another one has
\* stored its application.
C10_Witness ==
    \E r1, r2 \in Slots :
        /\ req[r1].op = "create" /\ req[r1].pc = "done"
        /\ req[r1].exc = "SchemaValidationException"
        /\ req[r1].application.input_schema = InSchema
        /\ req[r1].application.output_schema = BadSchema
        /\ req[r2].op = "create" /\ req[r2].pc = "done" /\ req[r2].exc = "none"
        /\ req[r2].app_id \in DOMAIN apps

\* C11: an invocation whose call returns a text that is not JSON ends with
\* OutputValidationException, the error of an output that fails the output
\* schema, and is given no log row.
C11_ParseFailureIsOutputValidationError ==
    \A r \in Slots :
        (/\ req[r].op = "invoke"
         /\ req[r].pc = "done"
         /\ req[r].text # "none"
         /\ ~IsJson(req[r].text)) =>
            /\ req[r].exc = "OutputValidationException"
            /\ req[r].log_id = 0

\* C12: when all attempts of an invocation fail, the message of the
\* LLMCallException holds the message of the error of the last attempt.
C12_LLMCallErrorCarriesLastMessage ==
    \A r \in Slots :
        (/\ req[r].op = "invoke"
         /\ req[r].pc = "done"
         /\ req[r].exc = "LLMCallException") =>
            /\ req[r].last_attempt \in Errors
            /\ \E i \in 1..Len(req[r].detail) : req[r].detail[i] = req[r].last_attempt

\* C13: the completions endpoint answers a successful invocation with 200
\* and its output, a missing application with 404, an input that fails its
\* schema with 400 and an output that fails its schema with 400.
C13_CompletionStatusCodes ==
    \A r \in Slots :
        (req[r].op = "invoke" /\ req[r].pc = "done" /\ req[r].status_code # 0) =>
            /\ req[r].exc = "none" => (req[r].status_code = 200 /\ req[r].ret # "none")
            /\ req[r].exc = "ApplicationNotFoundException" => req[r].status_code = 404
            /\ req[r].exc = "InputValidationException" => req[r].status_code = 400
            /\ req[r].exc = "OutputValidationException" => req[r].status_code = 400

\* The three fields a caller supplies are the same in two records.
SameSupplied(a, b) ==
    /\ a.prompt_config = b.prompt_config
    /\ a.input_schema = b.input_schema
    /\ a.output_schema = b.output_schema

\* The get in slot r has returned an application.
GotApplication(r) ==
    req[r].op = "get" /\ req[r].pc = "done" /\ req[r].exc = "none"

\* C14: a get of a stored id returns the stored record and changes neither
\* store; the record a get returns has the prompt and the two schemas that
\* the create of that id was given; and two gets of one id return the same
\* record.
C14_GetReturnsWhatWasCreated ==
    [][/\ \A r \in Slots :
            (req[r].pc = "idle" /\ req'[r].op = "get") =>
                /\ apps' = apps
                /\ logs' = logs
                /\ req'[r].app_id \in DOMAIN apps =>
                      /\ req'[r].exc = "none"
                      /\ req'[r].application = apps[req'[r].app_id]
       /\ \A r1, r2 \in Slots :
            (/\ req'[r1].op = "create" /\ req'[r1].exc = "none"
             /\ req'[r2].op = "get" /\ req'[r2].exc = "none"
             /\ req'[r1].app_id = req'[r2].app_id) =>
                SameSupplied(req'[r2].application, req'[r1].application)
       /\ \A r1, r2 \in Slots :
            (/\ req'[r1].op = "get" /\ req'[r1].exc = "none"
             /\ req'[r2].op = "get" /\ req'[r2].exc = "none"
             /\ req'[r1].app_id = req'[r2].app_id) =>
                req'[r1].application = req'[r2].application]_vars

\* Two gets of one id have returned its application, as it was created.
C14_Witness ==
    \E r1, r2 \in Slots :
        /\ r1 # r2
        /\ GotApplication(r1) /\ GotApplication(r2)
        /\ req[r1].app_id = req[r2].app_id
        /\ req[r1].application.input_schema = InSchema
        /\ req[r1].application.output_schema = OutSchema
        /\ req[r1].application.prompt_config \in Prompts

\* C15: an invocation cancelled during its LLM call or between two
\* attempts ends there: it makes no further attempt, it is given no log
\* row, and no step of it changes the table of logs.
C15_CancelledInvocationStoresNoLog ==
    [][\A r \in Slots :
          /\ (req'[r] # req[r] /\ req'[r].exc = "CancelledError") =>
                /\ req'[r].pc = "done"
                /\ req'[r].attempts = req[r].attempts
                /\ req'[r].log_id = 0
                /\ logs' = logs
          /\ (req'[r] # req[r] /\ req[r].exc = "CancelledError") =>
                /\ req'[r] = IdleReq
                /\ logs' = logs]_vars

\* An invocation was cancelled after an attempt had failed, and no log of
\* its application is stored.
C15_Witness ==
    \E r \in Slots :
        /\ req[r].op = "invoke"
        /\ req[r].pc = "done"
        /\ req[r].exc = "CancelledError"
        /\ req[r].attempts >= 1
        /\ req[r].last_attempt \in Errors
        /\ LogsOf(req[r].app_id) = {}

\* C16: an invocation that waits for its LLM call or for its commit can
\* always take its next step, whatever the other requests are doing; and
\* two invocations of one application that have both returned an output
\* have each stored one log row of their own.
C16_ConcurrentInvocationsIndependent ==
    /\ \A r \in Tasks :
          /\ (req[r].op = "invoke" /\ req[r].pc = "llm") => ENABLED call_llm(r)
          /\ (req[r].op = "invoke" /\ req[r].pc = "commit") => ENABLED get_db_session(r)
    /\ \A r1, r2 \in Tasks :
          (/\ r1 # r2
           /\ req[r1].op = "invoke" /\ req[r1].pc = "done" /\ req[r1].ret # "none"
           /\ req[r2].op = "invoke" /\ req[r2].pc = "done" /\ req[r2].ret # "none"
           /\ req[r1].app_id = req[r2].app_id) =>
              /\ Cardinality(LoggedBy(r1)) = 1
              /\ Cardinality(LoggedBy(r2)) = 1
              /\ LoggedBy(r1) \cap LoggedBy(r2) = {}

\* C17: the steps of an invocation come in order.  Its input was validated
\* against the schema of the application it fetched before its first
\* attempt; a text is examined only after an attempt; an output is returned
\* and a log row added only for a text that parsed and satisfied the output
\* schema; the table of logs changes only at the commit that follows; and
\* an invocation that ended without an error went through all of it.
C17_StepsInOrder ==
    [][/\ \A r \in Slots :
            req'[r].op = "invoke" =>
                /\ req'[r].exc = "InputValidationException" => Found(r)'
                /\ (req'[r].pc = "llm" \/ req'[r].attempts >= 1) =>
                      /\ Found(r)'
                      /\ Conforms(req'[r].input_data, req'[r].application.input_schema)
                /\ req'[r].text # "none" => req'[r].attempts >= 1
                /\ (req'[r].pc = "commit" \/ req'[r].ret # "none" \/ req'[r].log_id # 0) =>
                      /\ req'[r].attempts >= 1
                      /\ GotValidOutput(r)'
                      /\ req'[r].ret = JsonValueOf(req'[r].text)
                /\ req'[r].log_id # 0 => Cardinality(LoggedBy(r))' = 1
                /\ (req'[r].pc = "done" /\ req'[r].exc = "none") => req'[r].log_id # 0
       /\ logs' # logs =>
            \E r \in Slots :
                /\ req[r].op = "invoke" /\ req[r].pc = "commit"
                /\ req'[r].pc = "done" /\ req'[r].log_id # 0]_vars

\* An invocation has gone through all steps and stored its log, after a
\* failed attempt.
C17_Witness ==
    \E r \in Slots :
        /\ req[r].op = "invoke" /\ req[r].pc = "done" /\ req[r].exc = "none"
        /\ req[r].attempts = 2
        /\ Cardinality(LoggedBy(r)) = 1

\* C18: an invocation makes at most 3 attempts.  An attempt is made only by
\* an invocation in its LLM call that has made fewer than 3 and has no text
\* yet; after a failed attempt the invocation stays in its LLM call exactly
\* when fewer than 3 attempts were made; after an attempt that returned a
\* text it has left the LLM call for good, whether or not the text parses
\* and satisfies the output schema.
C18_AtMostThreeAttempts ==
    [][\A r \in Slots :
          /\ req'[r].attempts <= 3
          /\ (req'[r].text # "none" \/ req'[r].exc # "none") => req'[r].pc # "llm"
          /\ (req[r].op = "invoke" /\ req'[r].op = "invoke"
                /\ req'[r].attempts # req[r].attempts) =>
                /\ req[r].pc = "llm"
                /\ req[r].text = "none"
                /\ req[r].attempts < 3
                /\ req'[r].attempts = req[r].attempts + 1
                /\ req'[r].text = "none" =>
                      /\ req'[r].last_attempt \in Errors
                      /\ (req'[r].pc = "llm") <=> (req'[r].attempts < 3)
                /\ req'[r].text # "none" => req'[r].pc \in {"commit", "done"}]_vars

\* After two failed attempts the third one returned a text that failed the
\* output validation, and the invocation ended there.
C18_Witness ==
    \E r \in Slots :
        /\ req[r].op = "invoke" /\ req[r].pc = "done"
        /\ req[r].attempts = 3
        /\ req[r].text = "{out_num}"
        /\ req[r].exc = "OutputValidationException"

\* C19: the input of every stored log satisfies the input schema, and its
\* output the output schema, of the stored application it references.
C19_LogsSatisfySchemas ==
    \A i \in 1..Len(logs) :
        /\ logs[i].application_id \in DOMAIN apps
        /\ Conforms(logs[i].input_data, apps[logs[i].application_id].input_schema)
        /\ Conforms(logs[i].output_data, apps[logs[i].application_id].output_schema)

\* A log is stored for an application, and another invocation of that
\* application was refused for its output.
C19_Witness ==
    /\ Len(logs) >= 1
    /\ \E r \in Slots :
          /\ req[r].op = "invoke" /\ req[r].pc = "done"
          /\ req[r].exc = "OutputValidationException"
          /\ req[r].app_id = logs[1].application_id

\* C20: no step changes the row of an application that stays stored; an
\* application leaves the store only by a delete of it that succeeds; an
\* attempt of an invocation sends the output schema with additional
\* properties forbidden and changes neither the stored applications nor the
\* application the invocation fetched; a delete that fails changes nothing.
C20_ApplicationsImmutable ==
    [][/\ \A id \in DOMAIN apps :
            IF id \in DOMAIN apps'
            THEN apps'[id] = apps[id]
            ELSE \E r \in Slots :
                    /\ req[r].op = "delete" /\ req[r].app_id = id
                    /\ req'[r].pc = "done" /\ req'[r].exc = "none"
       /\ \A r \in Slots :
            /\ (req[r].op = "invoke" /\ req'[r].op = "invoke"
                  /\ req'[r].attempts # req[r].attempts) =>
                  /\ req'[r].response_format.schema = req[r].application.output_schema
                  /\ req'[r].response_format.additionalProperties = FALSE
                  /\ req'[r].application = req[r].application
                  /\ apps' = apps
            /\ (req'[r] # req[r] /\ req'[r].op = "delete" /\ req'[r].exc # "none") =>
                  apps' = apps]_vars

\* An invocation has sent the tightened schema and stored its log, a delete
\* of its application has failed, and the application is stored as created.
C20_Witness ==
    \E r1, r2 \in Slots :
        /\ req[r1].op = "invoke" /\ req[r1].pc = "done" /\ req[r1].log_id # 0
        /\ req[r1].response_format.additionalProperties = FALSE
        /\ req[r2].op = "delete" /\ req[r2].pc = "done" /\ req[r2].exc = "IntegrityError"
        /\ req[r2].app_id = req[r1].app_id
        /\ req[r1].app_id \in DOMAIN apps
        /\ apps[req[r1].app_id].output_schema = OutSchema
        /\ apps[req[r1].app_id] = req[r1].application

\* C21: a stored log stays stored with all its fields as long as its
\* application is stored: after any step it is still in the table and
\* unchanged, or its application has left the store in that step.
C21_LogsAppendOnly ==
    [][\A i \in 1..Len(logs) :
          \/ /\ i <= Len(logs')
             /\ logs'[i] = logs[i]
          \/ /\ logs[i].application_id \notin DOMAIN apps'
             /\ \A j \in 1..Len(logs') : logs'[j].id # logs[i].id]_vars

\* Two logs of one application are stored, the second one appended after
\* the first, and a delete of the application was refused.
C21_Witness ==
    /\ Len(logs) = 2
    /\ logs[1].application_id = logs[2].application_id
    /\ logs[1].id # logs[2].id
    /\ \E r \in Slots :
          /\ req[r].op = "delete" /\ req[r].pc = "done"
          /\ req[r].exc = "IntegrityError"
          /\ req[r].app_id = logs[1].application_id

\* C22: a request has a session from its start to its end and none
\* afterwards.  A handler that returned leaves its writes to one commit:
\* the commit either succeeds, and then the write is stored and nothing is
\* pending any more, or fails, and then nothing is stored.  A step of a
\* request that ends with an error changes neither store and leaves
\* nothing pending.  The stores change only by such a commit or by the
\* commit inside a create.  Closing the session writes nothing.
C22_SessionReleased ==
    [][/\ \A r \in Slots :
            /\ (req'[r].op = "idle") <=> (req'[r].session = "none")
            /\ (req'[r].op # "idle") <=> (req'[r].session = "open")
            /\ req'[r].pc = "done" => req'[r].pending = "none"
            /\ (req'[r] # req[r] /\ req'[r].exc # "none") =>
                  /\ apps' = apps
                  /\ logs' = logs
                  /\ req'[r].pending = "none"
            /\ (req[r].pc = "commit" /\ req'[r] # req[r]) =>
                  /\ req[r].pending # "none"
                  /\ req'[r].pc = "done"
                  /\ (req'[r].exc = "none" /\ req[r].pending = "log") =>
                        /\ Len(logs') = Len(logs) + 1
                        /\ Cardinality(LoggedBy(r))' = 1
                        /\ apps' = apps
                  /\ (req'[r].exc = "none" /\ req[r].pending = "delete") =>
                        /\ req[r].app_id \notin DOMAIN apps'
                        /\ logs' = logs
            /\ (req[r].pc = "done" /\ req'[r] # req[r]) =>
                  /\ req'[r] = IdleReq
                  /\ apps' = apps
                  /\ logs' = logs
       /\ (apps' # apps \/ logs' # logs) =>
            \E r \in Slots :
                \/ /\ req[r].pc = "idle"
                   /\ req'[r].op = "create" /\ req'[r].exc = "none"
                \/ /\ req[r].pc = "commit" /\ req[r].pending # "none"
                   /\ req'[r].pc = "done" /\ req'[r].exc = "none"]_vars

\* The commit of an invocation was refused and has stored nothing; the
\* delete that went through before it has ended and given its slot back.
C22_Witness ==
    \E r1, r2 \in Slots :
        /\ req[r1].op = "invoke" /\ req[r1].pc = "done"
        /\ req[r1].exc = "IntegrityError" /\ req[r1].pending = "none"
        /\ req[r1].session = "open"
        /\ req[r2] = IdleReq
        /\ started >= 3
        /\ logs = <<>>

\* The invocation in slot r has ended in exactly one of the five outcomes:
\* an output and no error, or one of the four errors and no output.
OneOutcome(r) ==
    \/ req[r].exc = "none" /\ req[r].ret # "none"
    \/ /\ req[r].ret = "none"
       /\ req[r].exc \in {"ApplicationNotFoundException", "InputValidationException",
                          "LLMCallException", "OutputValidationException"}

\* Every invocation comes to its end.
InvokeTerminates ==
    \A r \in Slots :
        (req[r].op = "invoke") ~> (req[r].op = "invoke" /\ req[r].pc = "done")

\* C23: every invocation comes to its end, and an invocation that has ended
\* (and was not cancelled) has ended in exactly one of the five outcomes.
C23_InvokeEndsInOneOutcome ==
    /\ InvokeTerminates
    /\ [](\A r \in Slots :
            (req[r].op = "invoke" /\ req[r].pc = "done" /\ req[r].exc # "CancelledError")
                => OneOutcome(r))

\* C24: the items and the total of one listing fit together: the number of
\* items is min(size, max(0, total - (page-1)*size)) for the total of the
\* same response.
C24_ItemsAndTotalConsistent ==
    \A r \in Slots :
        (req[r].op = "list" /\ req[r].pc = "done" /\ req[r].exc = "none") =>
            Len(req[r].items) =
                Min(req[r].size, Max(0, req[r].total - (req[r].page - 1) * req[r].size))
====
